---- MODULE Spec2Model ----
(***************************************************************************)
(* Model of the DataTable component (DataTable.tsx): its three pieces of   *)
(* React state (selectedRows, sortColumn, sortDirection), the memoised     *)
(* sortedData, the row key resolver getRowKey and the handlers handleSort, *)
(* handleRowSelect and handleSelectAll; and of the InputField component    *)
(* (InputField.tsx): its props, its React state showPassword, the buttons  *)
(* it renders and their handlers.                                          *)
(*                                                                         *)
(* JavaScript values are encoded as integers: field values and keys are    *)
(* naturals, undefined is Undefined.  A record is a function from the      *)
(* names of the fields it has to their values; a field it lacks reads as   *)
(* Undefined.  JavaScript array indexes are 0-based, sequences 1-based:    *)
(* the element at sequence position i has index i - 1.                     *)
(***************************************************************************)
EXTENDS Integers, Sequences, FiniteSets

VARIABLES
    loading,        \* prop loading
    onRowSelect,    \* whether the host passed the prop onRowSelect
    supplied,       \* the sequence the host passed as data
    data,           \* prop data: T[], the array that holds that sequence
    rowKey,         \* prop rowKey: keyof T | ((record: T) => string | number)
    selectedRows,   \* useState<T[]>([])
    sortColumn,     \* useState<keyof T | null>(null)
    sortDirection,  \* useState<SortDirection>(null)
    sortedData,     \* the value useMemo holds for the current render
    notified,       \* arguments of the onRowSelect calls made by the last event
    hostRows,       \* what a host that stores these arguments holds
    last,           \* the last event and the state it started from
    clicks,         \* events since {null, null}, all activations of one header
    props,          \* the props of the InputField, defaults applied
    showPassword,   \* useState(false)
    toggles,        \* activations of the password toggle since the mount
    changeEvents    \* arguments of the onChange calls made by the last event

tableVars == <<loading, onRowSelect, supplied, data, rowKey, selectedRows, sortColumn, sortDirection, sortedData,
               notified, hostRows, last, clicks>>

fieldVars == <<props, showPassword, toggles, changeEvents>>

vars == <<tableVars, fieldVars>>

----------------------------------------------------------------------------
(* Bounds of the model *)

\* rows of the data prop
MaxRows == 3
\* length of selectedRows (appending a row twice makes it longer than data)
MaxSelected == 3
\* rows of the data of a host that passes other data
MaxHostRows == 2
\* activations of the password toggle that are counted
MaxToggles == 3
\* successive activations of one header that are counted
MaxClicks == 4

----------------------------------------------------------------------------
(* Values *)

\* JavaScript undefined: what reading an absent field gives
Undefined == -1
\* JavaScript null: the initial sortColumn and sortDirection
Null == "null"

\* values of the id field (0 is falsy) and of the name field (0 stands for
\* the empty string, falsy as well)
IdValues == {0, 1, 2}
NameValues == {0, 1}

\* T extends Record<string, any>: records with a name, with or without an id
Records ==
    [id : IdValues, name : NameValues] \cup [name : NameValues]

\* record[field]
Get(record, field) ==
    IF field \in DOMAIN record THEN record[field] ELSE Undefined

\* JavaScript truthiness of a number or undefined
Truthy(v) == v # Undefined /\ v # 0

\* aValue < bValue: false when either side is undefined (NaN comparison)
JsLess(a, b) == a # Undefined /\ b # Undefined /\ a < b

Range(s) == {s[i] : i \in 1..Len(s)}

\* Column<T>[]: two sortable columns, one with sortable: false, one without
\* the sortable flag
Columns ==
    { [key |-> "id", sortable |-> TRUE],
      [key |-> "name", sortable |-> TRUE],
      [key |-> "email", sortable |-> FALSE],
      [key |-> "role"] }

\* variant: column.sortable !== false, which takes an absent flag as sortable
IsSortableUnlessFalse(column) ==
    ~("sortable" \in DOMAIN column /\ ~column.sortable)

\* column.sortable as a condition (undefined is falsy)
IsSortable(column) ==
    "sortable" \in DOMAIN column /\ column.sortable

\* a function a caller passes as rowKey; its result is falsy for some records
KeyFunctions ==
    { [r \in Records |-> r.name] }

NoFunction == [r \in Records |-> 0]

\* the rowKey prop: a field name or a function
RowKeys ==
    { [isFunction |-> FALSE, field |-> f, fn |-> NoFunction] : f \in {"id", "name"} }
    \cup { [isFunction |-> TRUE, field |-> "", fn |-> g] : g \in KeyFunctions }

\* rowKey = 'id'
DefaultRowKey == [isFunction |-> FALSE, field |-> "id", fn |-> NoFunction]

----------------------------------------------------------------------------
(* getRowKey *)

\* variant: record[rowKey] ?? index, which falls back for an absent field only
getRowKeyNullish(record, index, key) ==
    IF key.isFunction
    THEN key.fn[record]
    ELSE IF Get(record, key.field) # Undefined
         THEN Get(record, key.field)
         ELSE index

getRowKey(record, index, key) ==
    IF key.isFunction
    THEN key.fn[record]
    ELSE IF Truthy(Get(record, key.field))
         THEN Get(record, key.field)
         ELSE index

----------------------------------------------------------------------------
(* sortedData *)

\* variant: the comparison is not negated for the descending direction
compareIgnoresDirection(a, b, column, direction) ==
    LET aValue == Get(a, column)
        bValue == Get(b, column)
    IN  IF aValue = bValue THEN 0
        ELSE IF JsLess(aValue, bValue) THEN -1 ELSE 1

\* variant: the comparator without its aValue === bValue case
compareWithoutEqual(a, b, column, direction) ==
    LET aValue == Get(a, column)
        bValue == Get(b, column)
        comparison == IF JsLess(aValue, bValue) THEN -1 ELSE 1
    IN  IF direction = "asc" THEN comparison ELSE -comparison

\* the comparator passed to sort
compare(a, b, column, direction) ==
    LET aValue == Get(a, column)
        bValue == Get(b, column)
        comparison == IF JsLess(aValue, bValue) THEN -1 ELSE 1
    IN  IF aValue = bValue THEN 0
        ELSE IF direction = "asc" THEN comparison ELSE -comparison

\* insertion of x behind every element that does not compare greater than it
RECURSIVE Insert(_, _, _, _)
Insert(s, x, column, direction) ==
    IF s = <<>> THEN <<x>>
    ELSE IF compare(x, Head(s), column, direction) < 0
         THEN <<x>> \o s
         ELSE <<Head(s)>> \o Insert(Tail(s), x, column, direction)

\* Array.prototype.sort with a consistent comparator: the stable sort
RECURSIVE StableSort(_, _, _)
StableSort(s, column, direction) ==
    IF s = <<>> THEN <<>>
    ELSE Insert(StableSort(SubSeq(s, 1, Len(s) - 1), column, direction),
                s[Len(s)], column, direction)

\* the comparator is consistent on s unless some values of the column are
\* undefined and others are not (then a < b and b < a are both false while
\* a === b is false, and compare says 1 both ways)
Consistent(s, column) ==
    \A i, j \in 1..Len(s) :
        (Get(s[i], column) = Undefined) = (Get(s[j], column) = Undefined)

Orderings(s) ==
    LET n == Len(s)
        P == {p \in [1..n -> 1..n] : \A i, j \in 1..n : i # j => p[i] # p[j]}
    IN  {[i \in 1..n |-> s[p[i]]] : p \in P}

\* what Array.prototype.sort may leave in the array: the stable sort, or, with
\* an inconsistent comparator, an implementation-defined order
SortOutcomes(s, column, direction) ==
    IF Consistent(s, column)
    THEN {StableSort(s, column, direction)}
    ELSE Orderings(s)

\* variant: data.sort(cmp), which sorts the array of the prop itself
SortInPlace(array, sorted) == [array |-> sorted, result |-> sorted]

\* [...data].sort(cmp): the copy is sorted, the array spread from is kept
CopyAndSort(array, sorted) == [array |-> array, result |-> sorted]

\* the useMemo callback: the data prop after it ran, and its result
computeSortedData(d, column, direction) ==
    IF column = Null \/ direction = Null
    THEN {[array |-> d, result |-> d]}
    ELSE {CopyAndSort(d, s) : s \in SortOutcomes(d, column, direction)}

----------------------------------------------------------------------------
(* handlers *)

\* variant: a two-state toggle, descending goes back to ascending
handleSortNeverClears(column, sc, sd) ==
    IF ~IsSortable(column) THEN [column |-> sc, direction |-> sd]
    ELSE IF sc = column.key
         THEN IF sd = "asc" THEN [column |-> sc, direction |-> "desc"]
              ELSE [column |-> sc, direction |-> "asc"]
         ELSE [column |-> column.key, direction |-> "asc"]

\* variant: the else branch sets the column only and keeps the direction
handleSortKeepsDirection(column, sc, sd) ==
    IF ~IsSortable(column) THEN [column |-> sc, direction |-> sd]
    ELSE IF sc = column.key
         THEN IF sd = "asc" THEN [column |-> sc, direction |-> "desc"]
              ELSE IF sd = "desc" THEN [column |-> Null, direction |-> Null]
              ELSE [column |-> sc, direction |-> "asc"]
         ELSE [column |-> column.key,
               direction |-> IF sd = Null THEN "asc" ELSE sd]

\* variant: the descending branch without setSortColumn(null)
handleSortClearsDirectionOnly(column, sc, sd) ==
    IF ~IsSortable(column) THEN [column |-> sc, direction |-> sd]
    ELSE IF sc = column.key
         THEN IF sd = "asc" THEN [column |-> sc, direction |-> "desc"]
              ELSE IF sd = "desc" THEN [column |-> sc, direction |-> Null]
              ELSE [column |-> sc, direction |-> "asc"]
         ELSE [column |-> column.key, direction |-> "asc"]

\* handleSort: the sort state after the header of column is activated
handleSort(column, sc, sd) ==
    IF ~IsSortable(column) THEN [column |-> sc, direction |-> sd]
    ELSE IF sc = column.key
         THEN IF sd = "asc" THEN [column |-> sc, direction |-> "desc"]
              ELSE IF sd = "desc" THEN [column |-> Null, direction |-> Null]
              ELSE [column |-> sc, direction |-> "asc"]
         ELSE [column |-> column.key, direction |-> "asc"]

\* variant: [record, ...selectedRows]
handleRowSelectPrepends(record, checked, selected, key) ==
    IF checked
    THEN <<record>> \o selected
    ELSE LET keep(row) == getRowKey(row, 0, key) # getRowKey(record, 0, key)
         IN  SelectSeq(selected, keep)

\* variant: filter((row) => row !== record), which compares the records
handleRowSelectByRecord(record, checked, selected, key) ==
    IF checked
    THEN Append(selected, record)
    ELSE LET keep(row) == row # record
         IN  SelectSeq(selected, keep)

\* variant: filter with === in place of !==
\* variant: the record is appended whatever checked is
handleRowSelectIgnoresChecked(record, checked, selected, key) ==
    Append(selected, record)

handleRowSelectKeepsMatches(record, checked, selected, key) ==
    IF checked
    THEN Append(selected, record)
    ELSE LET keep(row) == getRowKey(row, 0, key) = getRowKey(record, 0, key)
         IN  SelectSeq(selected, keep)

\* handleRowSelect: newSelectedRows
handleRowSelect(record, checked, selected, key) ==
    IF checked
    THEN Append(selected, record)
    ELSE LET keep(row) == getRowKey(row, 0, key) # getRowKey(record, 0, key)
         IN  SelectSeq(selected, keep)

\* variant: [...data] in place of [...sortedData]
handleSelectAllOfData(checked, view) ==
    IF checked THEN data ELSE <<>>

\* handleSelectAll: newSelectedRows
handleSelectAll(checked, view) ==
    IF checked THEN view ELSE <<>>

\* variant: selectedRows.includes(record)
isRowSelectedByRecord(record, selected, key) ==
    \E i \in 1..Len(selected) : selected[i] = record

isRowSelected(record, selected, key) ==
    \E i \in 1..Len(selected) :
        getRowKey(selected[i], 0, key) = getRowKey(record, 0, key)

isAllSelected(view, selected) ==
    Len(view) > 0 /\ Len(selected) = Len(view)

\* variant: <= in place of <
isIndeterminateInclusive(view, selected) ==
    Len(selected) > 0 /\ Len(selected) <= Len(view)

isIndeterminate(view, selected) ==
    Len(selected) > 0 /\ Len(selected) < Len(view)

\* the key each rendered row gets: getRowKey(record, index) in sortedData.map
RenderedKeys ==
    [i \in 1..Len(sortedData) |-> getRowKey(sortedData[i], i - 1, rowKey)]

\* String(v) for the values of the model
ToString(v) ==
    CASE v = 0 -> "0"
      [] v = 1 -> "1"
      [] v = 2 -> "2"
      [] OTHER -> "undefined"

\* the text of a cell of a column without render function:
\* String(record[column.key] || '')
cellText(record, column) ==
    LET value == Get(record, column.key)
    IN  IF Truthy(value) THEN ToString(value) ELSE ""

\* the cells of the rendered rows (no column of the model has a render
\* function)
RenderedCells ==
    [i \in 1..Len(sortedData) |->
        [column \in Columns |-> cellText(sortedData[i], column)]]

----------------------------------------------------------------------------
(* InputField *)

InputTypes == {"text", "password", "email", "number"}

\* values of the prop value: the empty string and two strings that are not
FieldValues == {"", "0", "a"}

\* the props the component reads, after the defaults of the destructuring;
\* onChange tells whether the host passed the prop
FieldProps ==
    [value : FieldValues, onChange : BOOLEAN, disabled : BOOLEAN,
     loading : BOOLEAN, type : InputTypes, clearable : BOOLEAN,
     passwordToggle : BOOLEAN]

\* the props of <InputField />
DefaultProps ==
    [value |-> "", onChange |-> FALSE, disabled |-> FALSE, loading |-> FALSE,
     type |-> "text", clearable |-> FALSE, passwordToggle |-> FALSE]

\* a string in a condition: '' is falsy, every other string truthy
TruthyString(s) == s # ""

\* handleClear: the arguments of the onChange calls it makes
\* variant: handleClear without its condition
handleClearUnconditional(p) == <<[target |-> [value |-> ""]]>>

handleClear(p) ==
    IF ~p.disabled /\ p.onChange
    THEN <<[target |-> [value |-> ""]]>>
    ELSE <<>>

actualInputType(type, show) ==
    IF type = "password" /\ show THEN "text" ELSE type

\* {loading && <div role="status" />}
showSpinner(p) == p.loading

showClearWhileLoading(p) ==
    p.clearable /\ TruthyString(p.value) /\ ~p.disabled

\* {clearable && value && !disabled && !loading && <button />}
showClear(p) ==
    p.clearable /\ TruthyString(p.value) /\ ~p.disabled /\ ~p.loading

\* {(passwordToggle || type === 'password') && !disabled && !loading &&
\*  <button />}
showToggle(p) ==
    (p.passwordToggle \/ p.type = "password") /\ ~p.disabled /\ ~p.loading

setShowPasswordOn(prev) == TRUE

\* the updater of the toggle: setShowPassword(prev => !prev)
setShowPassword(prev) == ~prev

----------------------------------------------------------------------------
(* State machine *)

NoRecord == [name |-> 0]

\* the data a host passes: up to MaxRows records
Tables(records) ==
    UNION {[1..n -> records] : n \in 0..MaxRows}

\* the records of the tables whose rows get selected: one without id, one
\* with a falsy id, two with truthy ids; the names tie and differ
SelectableRecords ==
    { [name |-> 1],
      [id |-> 0, name |-> 0],
      [id |-> 1, name |-> 1],
      [id |-> 2, name |-> 0] }

\* the state after the first render, with loading = false
Mounted(tables, keys, callbacks) ==
    /\ loading = FALSE
    /\ onRowSelect \in callbacks
    /\ supplied \in tables
    /\ data = supplied
    /\ rowKey \in keys
    /\ selectedRows = <<>>
    /\ sortColumn = Null
    /\ sortDirection = Null
    /\ sortedData = data
    /\ notified = <<>>
    /\ hostRows = <<>>
    /\ last = [op |-> "mount", column |-> Null, record |-> NoRecord,
               checked |-> FALSE, sortColumn |-> Null, sortDirection |-> Null,
               selected |-> 0]
    /\ clicks = [column |-> Null, n |-> 0]

\* the page of the table: an InputField without props that gets no event
FieldDefault ==
    /\ props = DefaultProps
    /\ showPassword = FALSE
    /\ toggles = 0
    /\ changeEvents = <<>>

Init == Mounted(Tables(SelectableRecords), RowKeys, {TRUE}) /\ FieldDefault

\* variant: the table is rendered whenever it has rows, loading or not
InteractiveWhileLoading == sortedData # <<>>

\* the headers with onClick and the checkboxes with onChange are rendered
\* only past the loading branch and the empty-state branch
Interactive == ~loading /\ sortedData # <<>>

\* variant: onRowSelect?.(selectedRows), the selection of the render before
onRowSelectCallsStale(newSelectedRows) ==
    IF onRowSelect THEN <<selectedRows>> ELSE <<>>

\* onRowSelect?.(newSelectedRows): the calls a selection handler makes
onRowSelectCalls(newSelectedRows) ==
    IF onRowSelect THEN <<newSelectedRows>> ELSE <<>>

\* the host of the story template, onRowSelect={setSelectedRows}: its state
\* after the calls of one event
hostSetSelectedRows(stored, calls) ==
    IF calls = <<>> THEN stored ELSE calls[Len(calls)]

\* variant: a selection handler that clears the sort
sortStateResetBySelection(sc, sd) == [column |-> Null, direction |-> Null]

\* handleRowSelect and handleSelectAll call setSelectedRows only: the sort
\* state is kept
sortStateAfterSelection(sc, sd) == [column |-> sc, direction |-> sd]

\* variant: a header activation that resets the selection
selectedRowsClearedBySort(selected) == <<>>

\* handleSort sets sortColumn and sortDirection only: selectedRows is kept
selectedRowsAfterSort(selected) == selected

\* successive activations of one sortable header, counted from {null, null}
CountClick(column) ==
    IF IsSortable(column) /\ clicks.column = column.key /\ clicks.n < MaxClicks
    THEN [column |-> column.key, n |-> clicks.n + 1]
    ELSE IF IsSortable(column) /\ sortColumn = Null /\ sortDirection = Null
         THEN [column |-> column.key, n |-> 1]
         ELSE [column |-> Null, n |-> 0]

\* onClick / onKeyDown of a header cell, and the render that follows
HandleSort(column) ==
    LET next == handleSort(column, sortColumn, sortDirection) IN
    /\ Interactive
    /\ sortColumn' = next.column
    /\ sortDirection' = next.direction
    /\ IF next.column = sortColumn /\ next.direction = sortDirection
       THEN UNCHANGED <<data, sortedData>>
       ELSE \E m \in computeSortedData(data, next.column, next.direction) :
                /\ data' = m.array
                /\ sortedData' = m.result
    /\ notified' = <<>>
    /\ UNCHANGED hostRows
    /\ last' = [op |-> "sort", column |-> column.key, record |-> NoRecord,
                checked |-> FALSE, sortColumn |-> sortColumn,
                sortDirection |-> sortDirection,
                selected |-> Len(selectedRows)]
    /\ clicks' = CountClick(column)
    /\ selectedRows' = selectedRowsAfterSort(selectedRows)
    /\ UNCHANGED <<loading, onRowSelect, supplied, rowKey>>
    /\ UNCHANGED fieldVars

\* onChange of a row checkbox
HandleRowSelect(record, checked) ==
    LET newSelectedRows == handleRowSelect(record, checked, selectedRows, rowKey)
        sort == sortStateAfterSelection(sortColumn, sortDirection)
    IN
    /\ Interactive
    /\ Len(newSelectedRows) <= MaxSelected
    /\ selectedRows' = newSelectedRows
    /\ notified' = onRowSelectCalls(newSelectedRows)
    /\ hostRows' = hostSetSelectedRows(hostRows, notified')
    /\ sortColumn' = sort.column
    /\ sortDirection' = sort.direction
    /\ last' = [op |-> "rowSelect", column |-> Null, record |-> record,
                checked |-> checked, sortColumn |-> sortColumn,
                sortDirection |-> sortDirection,
                selected |-> Len(selectedRows)]
    /\ clicks' = [column |-> Null, n |-> 0]
    /\ UNCHANGED <<loading, onRowSelect, supplied, data, rowKey, sortedData>>
    /\ UNCHANGED fieldVars

\* onChange of the header checkbox
HandleSelectAll(checked) ==
    LET newSelectedRows == handleSelectAll(checked, sortedData)
        sort == sortStateAfterSelection(sortColumn, sortDirection)
    IN
    /\ Interactive
    /\ selectedRows' = newSelectedRows
    /\ notified' = onRowSelectCalls(newSelectedRows)
    /\ hostRows' = hostSetSelectedRows(hostRows, notified')
    /\ sortColumn' = sort.column
    /\ sortDirection' = sort.direction
    /\ last' = [op |-> "selectAll", column |-> Null, record |-> NoRecord,
                checked |-> checked, sortColumn |-> sortColumn,
                sortDirection |-> sortDirection,
                selected |-> Len(selectedRows)]
    /\ clicks' = [column |-> Null, n |-> 0]
    /\ UNCHANGED <<loading, onRowSelect, supplied, data, rowKey, sortedData>>
    /\ UNCHANGED fieldVars

Next ==
    \/ \E column \in Columns : HandleSort(column)
    \/ \E record \in Range(sortedData), checked \in BOOLEAN :
           HandleRowSelect(record, checked)
    \/ \E checked \in BOOLEAN : HandleSelectAll(checked)

Spec == Init /\ [][Next]_vars

\* a click on the checkbox of a rendered row: the checkbox shows
\* isRowSelected(record), and its change event carries the opposite
ChangeRowCheckbox(record) ==
    HandleRowSelect(record, ~isRowSelected(record, selectedRows, rowKey))

\* a click on the header checkbox, which shows isAllSelected
ChangeHeaderCheckbox ==
    HandleSelectAll(~isAllSelected(sortedData, selectedRows))

\* the selectable table under clicks on the row checkboxes alone
RowCheckboxNext ==
    \E record \in Range(sortedData) : ChangeRowCheckbox(record)

RowCheckboxSpec == Init /\ [][RowCheckboxNext]_vars

\* what rowKey gives for a record before the fallback on the index
rawRowKey(record, key) ==
    IF key.isFunction THEN key.fn[record] ELSE Get(record, key.field)

\* the rows of s have truthy keys, no two the same
UniqueTruthyKeys(s, key) ==
    /\ \A i \in 1..Len(s) : Truthy(rawRowKey(s[i], key))
    /\ \A i, j \in 1..Len(s) :
           i # j => rawRowKey(s[i], key) # rawRowKey(s[j], key)

\* a table whose rows have unique, truthy keys, under clicks on its
\* checkboxes, select-all events and header activations
CheckboxInit ==
    /\ Mounted(Tables(Records), RowKeys, {TRUE})
    /\ UniqueTruthyKeys(supplied, rowKey)
    /\ FieldDefault

CheckboxNext ==
    \/ \E column \in Columns : HandleSort(column)
    \/ \E record \in Range(sortedData) : ChangeRowCheckbox(record)
    \/ \E checked \in BOOLEAN : HandleSelectAll(checked)

CheckboxSpec == CheckboxInit /\ [][CheckboxNext]_vars

\* the host renders the table again with another data sequence: useMemo
\* computes sortedData anew, the React state stays
SetData(newData) ==
    /\ newData # supplied
    /\ supplied' = newData
    /\ \E m \in computeSortedData(newData, sortColumn, sortDirection) :
           /\ data' = m.array
           /\ sortedData' = m.result
    /\ notified' = <<>>
    /\ UNCHANGED hostRows
    /\ last' = [op |-> "setData", column |-> Null, record |-> NoRecord,
                checked |-> FALSE, sortColumn |-> sortColumn,
                sortDirection |-> sortDirection,
                selected |-> Len(selectedRows)]
    /\ clicks' = [column |-> Null, n |-> 0]
    /\ UNCHANGED <<loading, onRowSelect, rowKey, selectedRows, sortColumn,
                   sortDirection>>
    /\ UNCHANGED fieldVars

\* the table, with the default rowKey, in a host that passes other data
\* while the user clicks checkboxes and headers
HostTables ==
    {s \in Tables(SelectableRecords) : Len(s) <= MaxHostRows}

DataInit ==
    Mounted(HostTables, {DefaultRowKey}, {TRUE}) /\ FieldDefault

DataNext ==
    \/ \E column \in Columns : HandleSort(column)
    \/ \E record \in Range(sortedData) : ChangeRowCheckbox(record)
    \/ ChangeHeaderCheckbox
    \/ \E newData \in HostTables : SetData(newData)

DataSpec == DataInit /\ [][DataNext]_vars

\* the table without selection: header activations on any table, with the
\* default rowKey
SortInit == Mounted(Tables(Records), {DefaultRowKey}, {TRUE}) /\ FieldDefault

SortNext == \E column \in Columns : HandleSort(column)

SortSpec == SortInit /\ [][SortNext]_vars

\* the host renders the table again with another value of loading; the
\* state hooks and the memo run before the loading branch and keep their values
SetLoading(value) ==
    /\ value # loading
    /\ loading' = value
    /\ notified' = <<>>
    /\ UNCHANGED hostRows
    /\ last' = [op |-> "setLoading", column |-> Null, record |-> NoRecord,
                checked |-> value, sortColumn |-> sortColumn,
                sortDirection |-> sortDirection,
                selected |-> Len(selectedRows)]
    /\ clicks' = [column |-> Null, n |-> 0]
    /\ UNCHANGED <<onRowSelect, supplied, data, rowKey, selectedRows,
                   sortColumn, sortDirection, sortedData>>
    /\ UNCHANGED fieldVars

\* the table in a host that passes onRowSelect or not and switches loading
\* on and off, with the default rowKey
HostInit ==
    Mounted(Tables(SelectableRecords), {DefaultRowKey}, BOOLEAN) /\ FieldDefault

HostNext ==
    \/ Next
    \/ \E value \in BOOLEAN : SetLoading(value)

HostSpec == HostInit /\ [][HostNext]_vars

\* the first render of an InputField with any props, on a page whose table
\* is empty
FieldInit ==
    /\ Mounted({<<>>}, {DefaultRowKey}, {FALSE})
    /\ props \in FieldProps
    /\ showPassword = FALSE
    /\ toggles = 0
    /\ changeEvents = <<>>

\* onClick of the password toggle, where it is rendered
TogglePassword ==
    /\ showToggle(props)
    /\ toggles < MaxToggles
    /\ showPassword' = setShowPassword(showPassword)
    /\ toggles' = toggles + 1
    /\ changeEvents' = <<>>
    /\ UNCHANGED props
    /\ UNCHANGED tableVars

\* onClick of the clear button, where it is rendered
ClickClear ==
    /\ showClear(props)
    /\ changeEvents' = handleClear(props)
    /\ UNCHANGED <<props, showPassword, toggles>>
    /\ UNCHANGED tableVars

\* the host renders the field again with other props; the React state
\* stays
SetProps(p) ==
    /\ p # props
    /\ props' = p
    /\ changeEvents' = <<>>
    /\ UNCHANGED <<showPassword, toggles>>
    /\ UNCHANGED tableVars

FieldNext ==
    \/ TogglePassword
    \/ ClickClear
    \/ \E p \in FieldProps : SetProps(p)

FieldSpec == FieldInit /\ [][FieldNext]_vars

----------------------------------------------------------------------------
(* Properties *)

\* the keys of the columns declared with sortable: true, and of the others
FlaggedSortable(c) == "sortable" \in DOMAIN c /\ c.sortable = TRUE
SortableKeys == {c.key : c \in {c \in Columns : FlaggedSortable(c)}}
UnsortableKeys == {c.key : c \in {c \in Columns : ~FlaggedSortable(c)}}

SortStateIs(column, direction) ==
    sortColumn = column /\ sortDirection = direction

\* C1: from {null, null}, the n-th successive activation of one sortable
\* header C gives {C, asc} for n = 1, {C, desc} for n = 2, {null, null} for
\* n = 3 and {C, asc} again for n = 4: the sort state depends on n modulo 3.
SortCycleClosure ==
    clicks.n > 0 =>
        /\ clicks.column \in SortableKeys
        /\ clicks.n % 3 = 1 => SortStateIs(clicks.column, "asc")
        /\ clicks.n % 3 = 2 => SortStateIs(clicks.column, "desc")
        /\ clicks.n % 3 = 0 => SortStateIs(Null, Null)

\* the fourth successive activation of one header has given {C, asc}
FourthActivationAscending ==
    /\ clicks.n = 4
    /\ SortStateIs(clicks.column, "asc")
    /\ last.sortColumn = Null

\* C2: activating a sortable column C2 while another column C1 is the sort
\* column gives {C2, asc}, whatever the direction of C1 was.
SortSwitchReset ==
    ( /\ last.op = "sort"
      /\ last.column \in SortableKeys
      /\ last.sortColumn # Null
      /\ last.sortColumn # last.column )
    => SortStateIs(last.column, "asc")

\* name was activated while id was sorted descending
SwitchedFromDescending ==
    /\ last.op = "sort"
    /\ last.column = "name"
    /\ last.sortColumn = "id"
    /\ last.sortDirection = "desc"
    /\ SortStateIs("name", "asc")

\* C3: activating a column whose sortable flag is false or absent leaves the
\* sort column and the sort direction as they were.
NonSortableNoOp ==
    (last.op = "sort" /\ last.column \in UnsortableKeys)
    => SortStateIs(last.sortColumn, last.sortDirection)

\* a column without the sortable flag was activated while a sort was active
UnflaggedColumnActivated ==
    /\ last.op = "sort"
    /\ last.column = "role"
    /\ last.sortColumn = "name"
    /\ last.sortDirection = "desc"
    /\ SortStateIs("name", "desc")


\* C4: a header activation leaves the selection as it was: selectedRows is
\* the same sequence, and isRowSelected answers the same for every record of
\* the data.
SortKeepsSelection ==
    [][last'.op = "sort" =>
          /\ selectedRows' = selectedRows
          /\ \A r \in Range(supplied) :
                 isRowSelected(r, selectedRows', rowKey')
                     = isRowSelected(r, selectedRows, rowKey)]_vars

\* a header activation reordered the view while some rows, not all, were
\* selected
SortedWithSelection ==
    /\ last.op = "sort"
    /\ sortedData # supplied
    /\ Len(selectedRows) = 1
    /\ Len(sortedData) = 3
    /\ sortedData[3] = selectedRows[1]
    /\ supplied[1] = selectedRows[1]

Count(s, r) == Cardinality({i \in 1..Len(s) : s[i] = r})

IsPermutation(s, t) ==
    /\ Len(s) = Len(t)
    /\ \A r \in Range(s) \cup Range(t) : Count(s, r) = Count(t, r)

\* every record has a value in column: the values are totally ordered
TotallyOrdered(s, column) ==
    \A i \in 1..Len(s) : Get(s[i], column) # Undefined

\* C5: with a sort column and a direction set, and totally ordered values in
\* that column, sortedData is a permutation of the data whose adjacent pairs
\* are non-decreasing (asc) or non-increasing (desc) in the column.
SortedViewOrdered ==
    ( /\ sortColumn # Null
      /\ sortDirection # Null
      /\ TotallyOrdered(supplied, sortColumn) )
    => /\ IsPermutation(sortedData, supplied)
       /\ \A i \in 1..(Len(sortedData) - 1) :
              LET v == Get(sortedData[i], sortColumn)
                  w == Get(sortedData[i + 1], sortColumn)
              IN  IF sortDirection = "asc" THEN v <= w ELSE v >= w

\* three rows with ascending ids are shown in descending order of id
DescendingViewOfThree ==
    /\ SortStateIs("id", "desc")
    /\ Len(supplied) = 3
    /\ TotallyOrdered(supplied, "id")
    /\ supplied[1].id < supplied[2].id
    /\ supplied[2].id < supplied[3].id
    /\ sortedData = <<supplied[3], supplied[2], supplied[1]>>

\* C6: whenever the sort column or the sort direction is null, sortedData is
\* the data in the order the host passed it; after three successive
\* activations of one sortable header from {null, null} the sort state is
\* {null, null} and the view is that order again.
UnsortedViewIsInput ==
    /\ (sortColumn = Null \/ sortDirection = Null) => sortedData = supplied
    /\ clicks.n = 3 => SortStateIs(Null, Null) /\ sortedData = supplied

\* the third activation of a header has restored an order that the sort by
\* this header had changed
ThirdActivationRestoresInput ==
    /\ clicks.n = 3
    /\ SortStateIs(Null, Null)
    /\ sortedData = supplied
    /\ TotallyOrdered(supplied, clicks.column)
    /\ StableSort(supplied, clicks.column, "asc") # supplied
    /\ StableSort(supplied, clicks.column, "desc") # supplied

\* C7: computing the sorted view never changes the data of the caller: after
\* any sequence of header activations it holds the records the host passed,
\* in the same order.
InputNeverMutated ==
    data = supplied

\* a view in another order than the data has been computed
ViewReorderedInputKept ==
    /\ last.op = "sort"
    /\ sortColumn # Null
    /\ sortedData # supplied
    /\ data = supplied

\* C8: select-all with checked = true makes selectedRows the records of the
\* sorted view in view order (so both have the same length), whatever was
\* selected before; with checked = false it makes selectedRows empty.
SelectAllReflectsView ==
    [][last'.op = "selectAll" =>
          IF last'.checked
          THEN selectedRows' = sortedData /\ Len(selectedRows') = Len(sortedData)
          ELSE selectedRows' = <<>>]_vars

\* all three rows of a view that is not in data order have been selected
SelectedAllOfSortedView ==
    /\ last.op = "selectAll"
    /\ last.checked
    /\ Len(sortedData) = 3
    /\ sortedData # supplied
    /\ selectedRows = sortedData

\* C9: allSelected = (|view| > 0 and |selection| = |view|) and indeterminate
\* = (0 < |selection| < |view|); the two are never both true, both are false
\* with rows and an empty selection, and with one of three rows selected
\* indeterminate is true and allSelected false.
AggregateFlags ==
    LET all == isAllSelected(sortedData, selectedRows)
        some == isIndeterminate(sortedData, selectedRows)
        v == Len(sortedData)
        n == Len(selectedRows)
    IN  /\ all = (v > 0 /\ n = v)
        /\ some = (0 < n /\ n < v)
        /\ ~(all /\ some)
        /\ (v > 0 /\ n = 0) => (~all /\ ~some)
        /\ (v = 3 /\ n = 1) => (some /\ ~all)
        /\ (v = 3 /\ n = 3) => (all /\ ~some)

\* one of three rows is selected
OneOfThreeSelected ==
    /\ last.op = "rowSelect"
    /\ Len(sortedData) = 3
    /\ Len(selectedRows) = 1
    /\ isIndeterminate(sortedData, selectedRows)
    /\ ~isAllSelected(sortedData, selectedRows)

\* C10: the key of a rendered row is the result of rowKey on the record when
\* rowKey is a function, whatever that is; else the value of the field rowKey
\* names, and the index of the row when the record lacks the field or holds
\* a falsy value in it.
RowKeyResolution ==
    \A i \in 1..Len(sortedData) :
        LET record == sortedData[i]
            k == RenderedKeys[i]
        IN  IF rowKey.isFunction
            THEN k = rowKey.fn[record]
            ELSE IF rowKey.field \in DOMAIN record /\ record[rowKey.field] # 0
                 THEN k = record[rowKey.field]
                 ELSE k = i - 1

\* with the default rowKey, a record without id at index 2 has key 2
MissingIdKeyIsIndex ==
    /\ rowKey = DefaultRowKey
    /\ Len(sortedData) = 3
    /\ "id" \notin DOMAIN sortedData[3]
    /\ RenderedKeys[3] = 2


\* the key handleRowSelect and isRowSelected resolve for a record
SelectionKey(r) == getRowKey(r, 0, rowKey)

\* the positions of s whose element has another selection key than r
KeptPositions(s, r) ==
    {i \in 1..Len(s) : SelectionKey(s[i]) # SelectionKey(r)}

\* C11: a row toggle with checked = true gives the previous selection with
\* the record appended: the previous elements in their order, then the
\* record, one element more.
ToggleOnAppends ==
    [][(last'.op = "rowSelect" /\ last'.checked) =>
          /\ Len(selectedRows') = Len(selectedRows) + 1
          /\ \A i \in 1..Len(selectedRows) : selectedRows'[i] = selectedRows[i]
          /\ selectedRows'[Len(selectedRows')] = last'.record]_vars

\* a second, different record has been appended behind the first
SecondRecordAppended ==
    /\ last.op = "rowSelect"
    /\ last.checked
    /\ last.selected = 1
    /\ Len(selectedRows) = 2
    /\ selectedRows[2] = last.record
    /\ selectedRows[1] # selectedRows[2]

\* C12: a row toggle with checked = false removes every element whose key
\* equals the key of the record, duplicates included, and keeps the other
\* elements in their previous relative order.
ToggleOffRemovesByKey ==
    [][(last'.op = "rowSelect" /\ ~last'.checked) =>
          LET kept == KeptPositions(selectedRows, last'.record) IN
          /\ Len(selectedRows') = Cardinality(kept)
          /\ \A i \in kept :
                 selectedRows'[Cardinality({j \in kept : j <= i})]
                     = selectedRows[i]]_vars

\* of three selected elements two had the key of the record and were
\* removed, the third was kept
TwoOfThreeRemoved ==
    /\ last.op = "rowSelect"
    /\ ~last.checked
    /\ last.selected = 3
    /\ Len(selectedRows) = 1
    /\ SelectionKey(selectedRows[1]) # SelectionKey(last.record)

\* C13: a row toggle with checked = false on a record whose key matches no
\* selected element leaves the selection as it was, elements and order.
ToggleOffAbsentKeepsSelection ==
    [][( /\ last'.op = "rowSelect"
         /\ ~last'.checked
         /\ \A i \in 1..Len(selectedRows) :
                SelectionKey(selectedRows[i]) # SelectionKey(last'.record) )
       => selectedRows' = selectedRows]_vars

\* a record with no selected match was unchecked while two rows were selected
AbsentRecordUnchecked ==
    /\ last.op = "rowSelect"
    /\ ~last.checked
    /\ last.selected = 2
    /\ Len(selectedRows) = 2
    /\ \A i \in 1..2 : SelectionKey(selectedRows[i]) # SelectionKey(last.record)

\* C14: isRowSelected(record) is true if and only if some selected element
\* resolves to the key of the record; with an empty selection it is false
\* for every record.
SelectedIffKeyMatches ==
    \A r \in Range(sortedData) :
        /\ isRowSelected(r, selectedRows, rowKey)
               = (\E x \in Range(selectedRows) : SelectionKey(x) = SelectionKey(r))
        /\ selectedRows = <<>> => ~isRowSelected(r, selectedRows, rowKey)

\* a row counts as selected through the key of another record
SelectedThroughSharedKey ==
    /\ last.op = "rowSelect"
    /\ Len(selectedRows) = 1
    /\ \E r \in Range(sortedData) :
           /\ r # selectedRows[1]
           /\ isRowSelected(r, selectedRows, rowKey)
    /\ \E r \in Range(sortedData) : ~isRowSelected(r, selectedRows, rowKey)


\* C15: when the host passed onRowSelect, every row toggle and every
\* select-all calls it exactly once, with the new selection that becomes
\* selectedRows; a header activation calls it zero times.
SelectionNotifiedOnce ==
    onRowSelect =>
        /\ last.op \in {"rowSelect", "selectAll"} => notified = <<selectedRows>>
        /\ last.op = "sort" => notified = <<>>

\* a row toggle has passed a selection of two rows to onRowSelect
TwoRowsNotified ==
    /\ onRowSelect
    /\ last.op = "rowSelect"
    /\ last.selected = 1
    /\ Len(selectedRows) = 2
    /\ notified = <<selectedRows>>

\* C16: the sort state is {null, null} at first and is changed by header
\* activations only: a row toggle or a select-all, checked or not, leaves
\* the sort column and the sort direction as they were.
SortStateOnlyByActivation ==
    /\ last.op = "mount" => SortStateIs(Null, Null)
    /\ last.op \in {"rowSelect", "selectAll"}
           => SortStateIs(last.sortColumn, last.sortDirection)

\* all rows were unselected while the view was sorted by name, descending
SelectAllUnderSort ==
    /\ last.op = "selectAll"
    /\ ~last.checked
    /\ last.selected > 0
    /\ last.sortColumn = "name"
    /\ SortStateIs("name", "desc")

\* C17: while loading is true no header activation, row toggle or select-all
\* takes place: every step from a state with loading = true keeps the sort
\* state and the selection and calls onRowSelect zero times, so they are the
\* same when loading is false again.
LoadingSuppressesEvents ==
    [][loading =>
          /\ sortColumn' = sortColumn
          /\ sortDirection' = sortDirection
          /\ selectedRows' = selectedRows
          /\ notified' = <<>>]_vars

\* loading has gone back to false with a sort and a selection held
LoadingEndedStateKept ==
    /\ last.op = "setLoading"
    /\ ~loading
    /\ last.checked = FALSE
    /\ onRowSelect
    /\ SortStateIs("id", "asc")
    /\ last.selected = 2
    /\ Len(selectedRows) = 2


\* C20: the cell of a column without render function shows the string form
\* of the value of the field, and the empty string only when the value is
\* null or undefined: 0 is shown as "0".
CellShowsStringOfValue ==
    \A i \in 1..Len(sortedData) : \A column \in Columns :
        LET value == Get(sortedData[i], column.key)
        IN  RenderedCells[i][column]
                = IF value = Undefined THEN "" ELSE ToString(value)


\* C18: for every combination of the props, the spinner is rendered iff
\* loading; the clear button iff clearable, value non-empty, not disabled
\* and not loading; the password toggle iff (passwordToggle or type is
\* password), not disabled and not loading.
AffordancesShown ==
    /\ showSpinner(props) <=> props.loading
    /\ showClear(props) <=>
           /\ props.clearable
           /\ props.value # ""
           /\ ~props.disabled
           /\ ~props.loading
    /\ showToggle(props) <=>
           /\ props.passwordToggle \/ props.type = "password"
           /\ ~props.disabled
           /\ ~props.loading

\* a loading field with a value to clear: spinner without clear button
LoadingClearableField ==
    /\ props.loading /\ props.clearable /\ props.value = "0"
    /\ ~props.disabled /\ props.type = "password"
    /\ showSpinner(props) /\ ~showClear(props) /\ ~showToggle(props)

\* C19: the type of the input element is text in place of the prop type
\* exactly when type is password and the toggle was activated an odd number
\* of times; otherwise it is the prop type, so activations on text, email
\* and number fields change nothing and two activations restore the type.
EffectiveInputKind ==
    actualInputType(props.type, showPassword)
        = IF props.type = "password" /\ toggles % 2 = 1
          THEN "text"
          ELSE props.type

\* a password field after two activations of its toggle
PasswordToggledTwice ==
    /\ props.type = "password"
    /\ toggles = 2
    /\ actualInputType(props.type, showPassword) = "password"


\* the records of s whose value in the column is v, in their order in s
WithValue(s, column, v) == SelectSeq(s, LAMBDA r : Get(r, column) = v)

DefinedValues == IdValues \cup NameValues

\* C22 as stated: with a sort column and a direction set, the records that
\* have the same value in the sort column are in sortedData in the order they
\* have in the data, whatever the other values of the column are.
SortStableForAnyData ==
    (sortColumn # Null /\ sortDirection # Null)
    => \A v \in DefinedValues :
           WithValue(sortedData, sortColumn, v)
               = WithValue(supplied, sortColumn, v)

\* C22: with a sort column and a direction set, and totally ordered values
\* in that column (none undefined), the records that have the same value in
\* the sort column are in sortedData in the order they have in the data, for
\* the ascending and the descending direction.
SortStableForOrderedData ==
    ( /\ sortColumn # Null
      /\ sortDirection # Null
      /\ TotallyOrdered(supplied, sortColumn) )
    => \A v \in DefinedValues :
           WithValue(sortedData, sortColumn, v)
               = WithValue(supplied, sortColumn, v)

\* a descending view that moved a record in front of two records that share
\* a name and differ in their id
DescendingKeepsEqualNames ==
    /\ sortColumn = "name"
    /\ sortDirection = "desc"
    /\ TotallyOrdered(supplied, "name")
    /\ Len(supplied) = 3
    /\ sortedData # supplied
    /\ \E i, j \in 1..3 :
          /\ i < j
          /\ supplied[i] # supplied[j]
          /\ Get(supplied[i], "name") = Get(supplied[j], "name")


Reverse(s) == [i \in 1..Len(s) |-> s[Len(s) + 1 - i]]

\* no two records of s have the same value in the column (undefined is a
\* value as well)
PairwiseDistinct(s, column) ==
    \A i, j \in 1..Len(s) :
        i # j => Get(s[i], column) # Get(s[j], column)

\* C23 as stated: for data with pairwise distinct values in the sort column,
\* the view after the second activation (descending) is the reverse of the
\* view after the first (ascending).
SecondActivationReversesDistinct ==
    [][( /\ sortDirection = "asc"
         /\ sortDirection' = "desc"
         /\ sortColumn' = sortColumn
         /\ PairwiseDistinct(supplied, sortColumn) )
       => sortedData' = Reverse(sortedData)]_vars

\* C23: for data with pairwise distinct and totally ordered values in the
\* sort column (none undefined), the view after the second activation of the
\* column (descending) is the reverse of the view after the first
\* (ascending).
SecondActivationReversesOrdered ==
    [][( /\ sortDirection = "asc"
         /\ sortDirection' = "desc"
         /\ sortColumn' = sortColumn
         /\ PairwiseDistinct(supplied, sortColumn)
         /\ TotallyOrdered(supplied, sortColumn) )
       => sortedData' = Reverse(sortedData)]_vars

\* the descending view, after the second activation, of three records with
\* distinct ids that the data holds in neither order
DescendingViewOfUnorderedIds ==
    /\ sortColumn = "id"
    /\ sortDirection = "desc"
    /\ clicks = [column |-> "id", n |-> 2]
    /\ Len(supplied) = 3
    /\ PairwiseDistinct(supplied, "id")
    /\ TotallyOrdered(supplied, "id")
    /\ sortedData # supplied
    /\ sortedData # Reverse(supplied)


\* C21: the table has a single-selection mode in which, after any sequence
\* of row toggles, selectedRows holds at most one record.  The component has
\* one selection configuration, the flag selectable, and no prop that asks
\* for single selection, so the statement is made of the selectable table.
SingleSelectionHoldsOne ==
    Len(selectedRows) <= 1


\* C24: a click on the clear button (the one event that leaves the props and
\* the toggle count alone) calls onChange once, with target.value = '', when
\* the field is not disabled and onChange was passed, and makes no call
\* otherwise; the value shown is the prop value, which the click leaves as it
\* was.
ClearCallsOnChangeOnce ==
    [][/\ (props' = props /\ toggles' = toggles)
           => changeEvents' = IF ~props.disabled /\ props.onChange
                              THEN <<[target |-> [value |-> ""]]>>
                              ELSE <<>>
       /\ changeEvents' # <<>> => props'.value = props.value]_vars

\* the host was told to clear a value that the field still shows
ClearRequestedValueShown ==
    /\ changeEvents = <<[target |-> [value |-> ""]]>>
    /\ props.onChange
    /\ props.value = "a"


\* C25: in every reachable state sortColumn is null if and only if
\* sortDirection is null; no sequence of header activations reaches a state
\* with a column set and the direction null.
SortColumnNullIffDirectionNull ==
    (sortColumn = Null) <=> (sortDirection = Null)

\* the third activation of one header has cleared column and direction
ThirdActivationClearedBoth ==
    /\ last.op = "sort"
    /\ last.sortColumn = "name"
    /\ last.sortDirection = "desc"
    /\ last.column = "name"
    /\ sortColumn = Null
    /\ sortDirection = Null


\* C26: with data whose row keys are unique and truthy, and row toggles that
\* come from the rendered checkboxes, after any sequence of row toggles,
\* select-all events and header activations no two elements of selectedRows
\* have the same key and selectedRows is not longer than sortedData.
SelectionKeysUniqueAndBounded ==
    /\ \A i, j \in 1..Len(selectedRows) :
           i # j => SelectionKey(selectedRows[i]) # SelectionKey(selectedRows[j])
    /\ Len(selectedRows) <= Len(sortedData)

\* both rows of a sorted table were selected one by one, the second just now
BothRowsCheckedUnderSort ==
    /\ last.op = "rowSelect"
    /\ last.checked
    /\ sortDirection = "desc"
    /\ Len(sortedData) = 2
    /\ Len(selectedRows) = 2
    /\ selectedRows[1] = sortedData[2]
    /\ selectedRows[2] = sortedData[1]


\* C27: in every reachable state, also after the host passed another data
\* sequence while rows were selected, isAllSelected implies isRowSelected
\* for every record of sortedData.
AllSelectedCoversView ==
    isAllSelected(sortedData, selectedRows)
    => \A i \in 1..Len(sortedData) :
           isRowSelected(sortedData[i], selectedRows, rowKey)


\* C28: for the record at every position of sortedData, the key of the
\* selection test and of the removal is the key the row is rendered with,
\* getRowKey(record, index); hence a row toggled on in an empty selection is
\* the only row that isRowSelected holds for, also when records lack the key
\* field.
SelectionKeyIsRenderedKey ==
    /\ \A i \in 1..Len(sortedData) :
           SelectionKey(sortedData[i]) = RenderedKeys[i]
    /\ (last.op = "rowSelect" /\ last.checked /\ last.selected = 0)
       => \A i \in 1..Len(sortedData) :
              isRowSelected(sortedData[i], selectedRows, rowKey)
              => sortedData[i] = last.record


\* C29: a host that passes onRowSelect and stores the argument of each call
\* holds, after every row toggle, select-all event and header activation, a
\* sequence equal to selectedRows.
HostCopyEqualsSelection ==
    onRowSelect => hostRows = selectedRows

\* the host holds the two selected records after a header activation
HostCopyAfterSort ==
    /\ onRowSelect
    /\ last.op = "sort"
    /\ sortDirection = "desc"
    /\ Len(selectedRows) = 2
    /\ selectedRows[1] # selectedRows[2]
    /\ hostRows = selectedRows


\* C30: whenever the toggle of a password field is not rendered (the field
\* is disabled or loading), the type of the input element is password.
PasswordMaskedWithoutToggle ==
    (props.type = "password" /\ ~showToggle(props))
    => actualInputType(props.type, showPassword) = "password"

====
